---------------------------- MODULE Spec2Model ----------------------------
(***************************************************************************)
(* A model of the MMA Coach Assistant's request/response adapter           *)
(* (services/geminiService.ts) and of the view selection of its results    *)
(* panel (components/ResultsSection.tsx).                                  *)
(*                                                                         *)
(* JavaScript strings on which the code works character by character      *)
(* (names, media types, data URLs, base64 text) are sequences of           *)
(* one-character strings.  Four specifications share the module:           *)
(*   SpecEncoder  fileToGenerativePart applied to one file,                *)
(*   Spec         two concurrent invocations of analyzeFights,             *)
(*   SpecCall     one invocation of analyzeFights, any arguments,          *)
(*   SpecRender   ResultsSection rendering its props.                      *)
(***************************************************************************)
EXTENDS Integers, Sequences, FiniteSets, TLC

VARIABLES
    encInput,           \* SpecEncoder: the file and what its FileReader will do
    encOutput,          \* SpecEncoder: the promise fileToGenerativePart returns
    args,               \* analyzeFights: the arguments of each invocation
    pc,                 \* analyzeFights: the await each invocation is suspended at
    fighterVideoPart,   \* analyzeFights: the local of that name, per invocation
    opponentVideoPart,  \* analyzeFights: the local of that name, per invocation
    reads,              \* history: what each invocation's file reads did, in order
    response,           \* history: how the provider answered each invocation
    outcome,            \* the promise each invocation returned to its caller
    network,            \* the provider requests issued so far, in order
    console,            \* what console.error has written so far, in order
    props,              \* SpecRender: the props ResultsSection was given
    view                \* SpecRender: what renderContent returned for them

----------------------------------------------------------------------------
(* Bounds of the model *)

\* longest file content, in bytes
MaxFileLen == 3

----------------------------------------------------------------------------
(* JavaScript values *)

Str(s) == [t |-> "string", v |-> s]
Undefined == [t |-> "undefined", v |-> <<>>]
Null == [t |-> "null", v |-> <<>>]

JsError(name, message) == [name |-> name, message |-> message]
NoError == JsError("", "")

\* A promise: pending, fulfilled with a value, or rejected with a reason.
Pending == [state |-> "pending", value |-> Undefined, reason |-> NoError]
Fulfilled(v) == [state |-> "fulfilled", value |-> v, reason |-> NoError]
Rejected(e) == [state |-> "rejected", value |-> Undefined, reason |-> e]

\* resolve/reject of a promise executor: only the first settlement counts.
Resolve(p, v) == IF p.state = "pending" THEN Fulfilled(v) ELSE p
Reject(p, e) == IF p.state = "pending" THEN Rejected(e) ELSE p

----------------------------------------------------------------------------
(* Strings *)

\* The index of the first occurrence of character c in s, 0 when absent.
IndexOf(s, c) ==
    IF \E i \in 1..Len(s) : s[i] = c
    THEN CHOOSE i \in 1..Len(s) : s[i] = c /\ \A j \in 1..(i - 1) : s[j] # c
    ELSE 0

\* String.prototype.split with a one-character separator.
RECURSIVE Split(_, _)
Split(s, sep) ==
    LET i == IndexOf(s, sep)
    IN  IF i = 0 THEN <<s>>
        ELSE <<SubSeq(s, 1, i - 1)>> \o Split(SubSeq(s, i + 1, Len(s)), sep)

\* The element at JavaScript index k (0-based) of an array of strings.
ElementAt(arr, k) == IF k + 1 \in 1..Len(arr) THEN Str(arr[k + 1]) ELSE Undefined

\* Whether needle occurs in hay as a contiguous run.
Contains(hay, needle) ==
    \E i \in 0..(Len(hay) - Len(needle)) :
        SubSeq(hay, i + 1, i + Len(needle)) = needle

\* name || placeholder
OrElse(name, placeholder) == IF name # <<>> THEN name ELSE placeholder

\* the placeholder labels of the result cards
Fighter == <<"F", "i", "g", "h", "t", "e", "r">>
Opponent == <<"O", "p", "p", "o", "n", "e", "n", "t">>

----------------------------------------------------------------------------
(* Base64, as FileReader.readAsDataURL writes it (RFC 4648, padded) *)

B64 == <<"A", "B", "C", "D", "E", "F", "G", "H", "I", "J", "K", "L", "M",
         "N", "O", "P", "Q", "R", "S", "T", "U", "V", "W", "X", "Y", "Z",
         "a", "b", "c", "d", "e", "f", "g", "h", "i", "j", "k", "l", "m",
         "n", "o", "p", "q", "r", "s", "t", "u", "v", "w", "x", "y", "z",
         "0", "1", "2", "3", "4", "5", "6", "7", "8", "9", "+", "/">>

B64Char(n) == B64[(n % 64) + 1]

RECURSIVE Base64Encode(_)
Base64Encode(bytes) ==
    IF Len(bytes) = 0 THEN <<>>
    ELSE IF Len(bytes) = 1 THEN
        LET n == bytes[1] * 65536
        IN  <<B64Char(n \div 262144), B64Char(n \div 4096), "=", "=">>
    ELSE IF Len(bytes) = 2 THEN
        LET n == bytes[1] * 65536 + bytes[2] * 256
        IN  <<B64Char(n \div 262144), B64Char(n \div 4096), B64Char(n \div 64), "=">>
    ELSE
        LET n == bytes[1] * 65536 + bytes[2] * 256 + bytes[3]
        IN  <<B64Char(n \div 262144), B64Char(n \div 4096), B64Char(n \div 64), B64Char(n)>>
            \o Base64Encode(SubSeq(bytes, 4, Len(bytes)))

----------------------------------------------------------------------------
(* Files and the FileReader *)

VideoMp4 == <<"v", "i", "d", "e", "o", "/", "m", "p", "4">>
VideoWebmCodecs ==
    <<"v", "i", "d", "e", "o", "/", "w", "e", "b", "m", ";", "c", "o", "d",
      "e", "c", "s", "=", "v", "p", "8", ",", "o", "p", "u", "s">>
OctetStream ==
    <<"a", "p", "p", "l", "i", "c", "a", "t", "i", "o", "n", "/", "o", "c",
      "t", "e", "t", "-", "s", "t", "r", "e", "a", "m">>

\* File.type values: a plain type, an unknown type (the empty string) and a
\* type with a codecs parameter, as recorded video carries it.
FileTypes == {VideoMp4, <<>>, VideoWebmCodecs}

ByteValues == {0, 77, 255}

RECURSIVE SeqsUpTo(_, _)
SeqsUpTo(S, n) ==
    IF n = 0 THEN {<<>>}
    ELSE LET shorter == SeqsUpTo(S, n - 1)
         IN  shorter \cup {Append(s, x) : s \in {q \in shorter : Len(q) = n - 1}, x \in S}

Files == [type : FileTypes, bytes : SeqsUpTo(ByteValues, MaxFileLen)]

\* What the environment does with one read: the read fails with an error
\* event, or it loads.  Browser engines differ on the empty file: the result
\* is a full data URL with an empty base64 part ("standard"), or, in engines
\* that predate that rule, the bare "data:" ("legacy").
ReadErrors == {JsError("ProgressEvent", "NotReadableError"),
               JsError("ProgressEvent", "NotFoundError")}
Engines == {"standard", "legacy"}
ReadEnvs == [kind : {"load"}, engine : Engines, event : {NoError}]
            \cup [kind : {"error"}, engine : {"standard"}, event : ReadErrors]

readAsDataURL(file, engine) ==
    IF Len(file.bytes) = 0 /\ engine = "legacy" THEN <<"d", "a", "t", "a", ":">>
    ELSE <<"d", "a", "t", "a", ":">>
         \o (IF file.type = <<>> THEN OctetStream ELSE file.type)
         \o <<";", "b", "a", "s", "e", "6", "4", ",">>
         \o Base64Encode(file.bytes)

\* reader.result when the read has ended
ReaderResult(file, env) ==
    IF env.kind = "load" THEN Str(readAsDataURL(file, env.engine)) ELSE Null

\* The events the reader fires, in order.
ReaderEvents(env) ==
    IF env.kind = "load" THEN <<"load", "loadend">> ELSE <<"error", "loadend">>

onloadend(p, result) ==
    IF result.t = "string"
    THEN Resolve(p, ElementAt(Split(result.v, ","), 1))
    ELSE Reject(p, JsError("Error", "Failed to read file as base64 string."))

onerror(p, error) == Reject(p, error)

\* The promise of base64EncodedData after the reader's events are handled.
RECURSIVE HandleEvents(_, _, _, _)
HandleEvents(p, events, file, env) ==
    IF events = <<>> THEN p
    ELSE LET ev == Head(events)
             q  == IF ev = "loadend" THEN onloadend(p, ReaderResult(file, env))
                   ELSE IF ev = "error" THEN onerror(p, env.event)
                   ELSE p
         IN  HandleEvents(q, Tail(events), file, env)

InlineData(mimeType, data) == [mimeType |-> mimeType, data |-> data]
NoPart == InlineData(<<>>, Undefined)

\* fileToGenerativePart: rejected with the reader promise's reason, or
\* fulfilled with the part built from whatever the promise resolved to.
fileToGenerativePart(file, env) ==
    LET base64EncodedData == HandleEvents(Pending, ReaderEvents(env), file, env)
    IN  IF base64EncodedData.state = "rejected"
        THEN [state |-> "rejected", part |-> NoPart, reason |-> base64EncodedData.reason]
        ELSE [state |-> "fulfilled",
              part |-> InlineData(file.type, base64EncodedData.value),
              reason |-> NoError]

PendingPart == [state |-> "pending", part |-> NoPart, reason |-> NoError]

----------------------------------------------------------------------------
(* JSON text and JSON.parse *)

\* A response text is a sequence of lexical tokens: punctuation, string and
\* number literals, the literals null/true/false, and whitespace.
Tok(t, v) == [t |-> t, v |-> v]
P(c) == Tok("p", c)
S(s) == Tok("str", s)
N(n) == Tok("num", n)
Lit(w) == Tok("lit", w)
Ws == Tok("ws", " ")
Nl == Tok("ws", "\n")

Num(n) == [t |-> "number", v |-> <<n>>]
Bool(w) == [t |-> "boolean", v |-> <<w>>]
Arr(items) == [t |-> "array", v |-> items]
Obj(members) == [t |-> "object", v |-> members]

\* String.prototype.trim: whitespace is dropped at both ends only.
RECURSIVE TrimStart(_)
TrimStart(s) == IF s # <<>> /\ Head(s).t = "ws" THEN TrimStart(Tail(s)) ELSE s
RECURSIVE TrimEnd(_)
TrimEnd(s) ==
    IF s # <<>> /\ s[Len(s)].t = "ws" THEN TrimEnd(SubSeq(s, 1, Len(s) - 1)) ELSE s
trim(s) == TrimEnd(TrimStart(s))

IsWs(tok) == tok.t = "ws"
NotWs(tok) == ~IsWs(tok)

ParseOk(val, next) == [ok |-> TRUE, val |-> val, next |-> next]
ParseFail(i) == [ok |-> FALSE, val |-> Null, next |-> i]
IsPunct(toks, i, c) == i <= Len(toks) /\ toks[i].t = "p" /\ toks[i].v = c

RECURSIVE ParseValue(_, _), ParseMembers(_, _, _), ParseElements(_, _, _)
ParseValue(toks, i) ==
    IF i > Len(toks) THEN ParseFail(i)
    ELSE LET tok == toks[i]
         IN  CASE tok.t = "str" -> ParseOk(Str(<<tok.v>>), i + 1)
               [] tok.t = "num" -> ParseOk(Num(tok.v), i + 1)
               [] tok.t = "lit" ->
                    ParseOk(IF tok.v = "null" THEN Null ELSE Bool(tok.v), i + 1)
               [] tok.t = "p" /\ tok.v = "{" ->
                    IF IsPunct(toks, i + 1, "}") THEN ParseOk(Obj(<<>>), i + 2)
                    ELSE ParseMembers(toks, i + 1, <<>>)
               [] tok.t = "p" /\ tok.v = "[" ->
                    IF IsPunct(toks, i + 1, "]") THEN ParseOk(Arr(<<>>), i + 2)
                    ELSE ParseElements(toks, i + 1, <<>>)
               [] OTHER -> ParseFail(i)

\* "key" : value, then a comma and more members, or the closing brace.  A
\* repeated key keeps its last value.
ParseMembers(toks, i, members) ==
    IF ~(i <= Len(toks) /\ toks[i].t = "str") THEN ParseFail(i)
    ELSE IF ~IsPunct(toks, i + 1, ":") THEN ParseFail(i + 1)
    ELSE LET r == ParseValue(toks, i + 2)
         IN  IF ~r.ok THEN r
             ELSE LET more == (toks[i].v :> r.val) @@ members
                  IN  IF IsPunct(toks, r.next, ",")
                      THEN ParseMembers(toks, r.next + 1, more)
                      ELSE IF IsPunct(toks, r.next, "}")
                      THEN ParseOk(Obj(more), r.next + 1)
                      ELSE ParseFail(r.next)

ParseElements(toks, i, items) ==
    LET r == ParseValue(toks, i)
    IN  IF ~r.ok THEN r
        ELSE LET more == Append(items, r.val)
             IN  IF IsPunct(toks, r.next, ",")
                 THEN ParseElements(toks, r.next + 1, more)
                 ELSE IF IsPunct(toks, r.next, "]")
                 THEN ParseOk(Arr(more), r.next + 1)
                 ELSE ParseFail(r.next)

\* JSON.parse: the value, or the SyntaxError it throws.  Whitespace between
\* tokens is insignificant; the whole text must be one value.
JSONparse(text) ==
    LET toks == SelectSeq(text, NotWs)
        r    == ParseValue(toks, 1)
    IN  IF r.ok /\ r.next = Len(toks) + 1
        THEN [threw |-> FALSE, value |-> r.val, e |-> NoError]
        ELSE [threw |-> TRUE, value |-> Undefined,
              e |-> IF r.next > Len(toks)
                    THEN JsError("SyntaxError", "Unexpected end of JSON input")
                    ELSE JsError("SyntaxError", "Unexpected token in JSON")]

----------------------------------------------------------------------------
(* The request analyzeFights builds *)

Jones == <<"J", "o", "n", "e", "s">>
Smith == <<"S", "m", "i", "t", "h">>
Flyweight ==
    <<"F", "l", "y", "w", "e", "i", "g", "h", "t", " ", "(", "1", "2", "5",
      " ", "l", "b", "s", ")">>
Heavyweight ==
    <<"H", "e", "a", "v", "y", "w", "e", "i", "g", "h", "t", " ", "(", "2",
      "6", "5", " ", "l", "b", "s", ")">>

\* The fixed text of the prompt template, one chunk per stretch between two
\* interpolations.  A string built from a template is the concatenation of
\* its fixed chunks and the characters of the interpolated strings.
PromptIntro ==
    "\n    You are an expert MMA analyst and coach. Analyze the two fighters based on the provided videos.\n\n    Fighter 1: "
PromptFighter2 == "\n    Fighter 2: "
PromptWeightClass == "\n    Weight Class: "
PromptCover == "\n\n    Please provide a detailed analysis covering:\n    1. For "
PromptProfile ==
    ": A list of strengths, a list of weaknesses, a list of fighting patterns and habits with excruciating details and a description of their fighting style."
PromptSecond == "\n    2. For "
PromptPlan ==
    "\n    3. A head-to-head prediction with a confidence score (from 0 to 100).\n    4. A recommended game plan for "
PromptDefeat == " to defeat "
PromptOutro ==
    ", including an overall strategy, a list of key tactics, and a list of specific drills to practice.\n\n    Return the analysis in a structured JSON format according to the provided schema.\n    "

PromptChunks ==
    {PromptIntro, PromptFighter2, PromptWeightClass, PromptCover, PromptProfile,
     PromptSecond, PromptPlan, PromptDefeat, PromptOutro}

\* Faulty variant of prompt: an empty name is replaced by its placeholder label.
promptWithPlaceholders(fighterName, opponentName, weightClass) ==
    LET f == OrElse(fighterName, Fighter)
        o == OrElse(opponentName, Opponent)
    IN  <<PromptIntro>> \o f
        \o <<PromptFighter2>> \o o
        \o <<PromptWeightClass>> \o weightClass
        \o <<PromptCover>> \o f \o <<PromptProfile>>
        \o <<PromptSecond>> \o o \o <<PromptProfile>>
        \o <<PromptPlan>> \o f \o <<PromptDefeat>> \o o
        \o <<PromptOutro>>

prompt(fighterName, opponentName, weightClass) ==
    <<PromptIntro>> \o fighterName
    \o <<PromptFighter2>> \o opponentName
    \o <<PromptWeightClass>> \o weightClass
    \o <<PromptCover>> \o fighterName \o <<PromptProfile>>
    \o <<PromptSecond>> \o opponentName \o <<PromptProfile>>
    \o <<PromptPlan>> \o fighterName \o <<PromptDefeat>> \o opponentName
    \o <<PromptOutro>>

\* The fields the schema declares for each of the four substructures.
ProfileFields ==
    [strengths |-> "string[]", fightingPattern |-> "string[]",
     fightingHabits |-> "string[]", weaknesses |-> "string[]",
     fightingStyle |-> "string"]
SchemaProperties ==
    [fighterAnalysis |-> ProfileFields,
     opponentAnalysis |-> ProfileFields,
     headToHead |-> [prediction |-> "string", confidence |-> "number"],
     recommendedGamePlan |->
        [strategy |-> "string", keyTactics |-> "string[]", drills |-> "string[]"]]

responseSchema(fighterName, opponentName) ==
    [properties |-> SchemaProperties,
     descriptions |->
        [fighterAnalysis |-> <<"Analysis for ">> \o fighterName \o <<".">>,
         opponentAnalysis |-> <<"Analysis for ">> \o opponentName \o <<".">>,
         headToHead |-> <<"Head-to-head comparison and prediction.">>,
         recommendedGamePlan |->
            <<"Recommended game plan for ">> \o fighterName \o <<".">>]]

TextPart(s) == [kind |-> "text", text |-> s, inlineData |-> NoPart]
MediaPart(part) == [kind |-> "inlineData", text |-> <<>>, inlineData |-> part]

FighterVideoLabel(fighterName) == <<"\n\nFighter Video (">> \o fighterName \o <<"):">>
OpponentVideoLabel(opponentName) == <<"\n\nOpponent Video (">> \o opponentName \o <<"):">>

RequestOf(fighterName, opponentName, weightClass, fighterPart, opponentPart) ==
    [model |-> "gemini-2.5-flash",
     parts |->
        << TextPart(prompt(fighterName, opponentName, weightClass)),
           TextPart(FighterVideoLabel(fighterName)),
           MediaPart(fighterPart),
           TextPart(OpponentVideoLabel(opponentName)),
           MediaPart(opponentPart) >>,
     config |-> [responseMimeType |-> "application/json",
                 responseSchema |-> responseSchema(fighterName, opponentName)]]

\* Faulty variant of GenerateContentRequest: the names and the weight class are kept
\* in module-level state that the latest invocation has overwritten.
GenerateContentRequestShared(a, fighterPart, opponentPart) ==
    LET latest == CHOOSE j \in DOMAIN args : \A k \in DOMAIN args : k <= j
    IN  RequestOf(args[latest].fighterName, args[latest].opponentName,
                  args[latest].weightClass, fighterPart, opponentPart)

\* The argument of ai.models.generateContent, built from the invocation's
\* own arguments a and its two encoded parts.
GenerateContentRequest(a, fighterPart, opponentPart) ==
    RequestOf(a.fighterName, a.opponentName, a.weightClass, fighterPart, opponentPart)

----------------------------------------------------------------------------
(* What the provider may answer *)

RECURSIVE Joined(_)
\* items, each a token sequence, separated by commas
Joined(items) ==
    IF items = <<>> THEN <<>>
    ELSE IF Len(items) = 1 THEN items[1]
    ELSE items[1] \o <<P(",")>> \o Joined(Tail(items))

ArrayText(items) == <<P("[")>> \o Joined(items) \o <<P("]")>>
Member(key, valueText) == <<S(key), P(":")>> \o valueText
ObjectText(members) == <<P("{")>> \o Joined(members) \o <<P("}")>>

ProfileText(style, strength, weakness) ==
    ObjectText(<< Member("strengths", ArrayText(<< <<S(strength)>>, <<S("cardio")>> >>)),
                  Member("fightingPattern", ArrayText(<< <<S("circles left")>> >>)),
                  Member("fightingHabits", ArrayText(<<>>)),
                  Member("weaknesses", ArrayText(<< <<S(weakness)>> >>)),
                  Member("fightingStyle", <<S(style)>>) >>)
FighterText == Member("fighterAnalysis", ProfileText("wrestler", "takedowns", "striking"))
OpponentText == Member("opponentAnalysis", ProfileText("kickboxer", "low kicks", "grappling"))
HeadToHeadText ==
    Member("headToHead",
           ObjectText(<< Member("prediction", <<S("decision win")>>),
                         Member("confidence", <<N("85")>>) >>))
GamePlanText ==
    Member("recommendedGamePlan",
           ObjectText(<< Member("strategy", <<S("close the distance")>>),
                         Member("keyTactics", ArrayText(<< <<S("level change")>> >>)),
                         Member("drills", ArrayText(<< <<S("sprawl")>>, <<S("chain wrestling")>> >>)) >>))

\* a reply that conforms to the schema
ConformantText == ObjectText(<<FighterText, OpponentText, HeadToHeadText, GamePlanText>>)
\* the same, with whitespace around it
PaddedText == <<Nl, Ws>> \o ConformantText \o <<Nl>>
\* valid JSON, headToHead.confidence absent
MissingConfidenceText ==
    ObjectText(<< FighterText, OpponentText,
                  Member("headToHead",
                         ObjectText(<<Member("prediction", <<S("decision win")>>)>>)),
                  GamePlanText >>)
\* valid JSON, one substructure absent
MissingGamePlanText == ObjectText(<<FighterText, OpponentText, HeadToHeadText>>)
\* valid JSON that is no object at all
NullText == <<Lit("null")>>
\* a conformant reply cut short
TruncatedText == SubSeq(ConformantText, 1, 20)
\* text that is not JSON
ProseText == <<P("{"), S("headToHead"), P("}")>>
EmptyText == <<>>
BlankText == <<Ws, Nl>>

ResponseTexts ==
    {ConformantText, PaddedText, MissingConfidenceText, MissingGamePlanText,
     NullText, TruncatedText, ProseText, EmptyText, BlankText}

ProviderErrors == {JsError("ApiError", "429 RESOURCE_EXHAUSTED"),
                   JsError("TypeError", "Failed to fetch")}

\* generateContent resolves with a response whose text is a string or is
\* undefined (no text part in the reply), or rejects with the provider's
\* error.
ProviderResponses ==
    [kind : {"text"}, text : ResponseTexts, error : {NoError}]
    \cup [kind : {"notext"}, text : {<<>>}, error : {NoError}]
    \cup [kind : {"error"}, text : {<<>>}, error : ProviderErrors]
NoResponse == [kind |-> "none", text |-> <<>>, error |-> NoError]

----------------------------------------------------------------------------
(* ResultsSection *)

\* JavaScript truthiness of null, undefined, strings and objects
Truthy(x) ==
    CASE x.t \in {"null", "undefined"} -> FALSE
      [] x.t = "string" -> x.v # <<>>
      [] OTHER -> TRUE

\* obj.key, for obj an object
Get(obj, key) == IF key \in DOMAIN obj.v THEN obj.v[key] ELSE Undefined

\* The member reads and .map calls of the result cards throw a TypeError when
\* a substructure, or a list that is mapped, is undefined.
Mapped ==
    [fighterAnalysis |-> {"strengths", "weaknesses", "fightingHabits", "fightingPattern"},
     opponentAnalysis |-> {"strengths", "weaknesses", "fightingHabits", "fightingPattern"},
     headToHead |-> {},
     recommendedGamePlan |-> {"keyTactics", "drills"}]
CardsThrow(analysisResult) ==
    \E sub \in DOMAIN Mapped :
        \/ Get(analysisResult, sub).t # "object"
        \/ \E list \in Mapped[sub] : Get(Get(analysisResult, sub), list).t # "array"

View(kind, title, message, prediction, confidence) ==
    [kind |-> kind, title |-> title, message |-> message,
     prediction |-> prediction, confidence |-> confidence]
Unrendered == View("unrendered", <<>>, <<>>, Undefined, Undefined)

\* Faulty variant of renderContent: a result, when there is one, is shown first.
renderContentResultFirst(p) ==
    IF Truthy(p.analysisResult) /\ ~CardsThrow(p.analysisResult)
    THEN View("result",
              <<"Head-to-Head: ">> \o OrElse(p.fighterName, Fighter)
                  \o <<" vs. ">> \o OrElse(p.opponentName, Opponent),
              <<>>,
              Get(Get(p.analysisResult, "headToHead"), "prediction"),
              Get(Get(p.analysisResult, "headToHead"), "confidence"))
    ELSE IF p.isLoading
    THEN View("loading", <<"Analyzing footage...">>, <<>>, Undefined, Undefined)
    ELSE IF Truthy(p.error)
    THEN View("error", <<"Analysis Failed:">>, p.error.v, Undefined, Undefined)
    ELSE View("empty", <<"Ready for Analysis">>, <<>>, Undefined, Undefined)

renderContent(p) ==
    IF p.isLoading THEN View("loading", <<"Analyzing footage...">>, <<>>, Undefined, Undefined)
    ELSE IF Truthy(p.error)
    THEN View("error", <<"Analysis Failed:">>, p.error.v, Undefined, Undefined)
    ELSE IF ~Truthy(p.analysisResult)
    THEN View("empty", <<"Ready for Analysis">>, <<>>, Undefined, Undefined)
    ELSE IF CardsThrow(p.analysisResult)
    THEN View("throws", <<>>, <<"TypeError">>, Undefined, Undefined)
    ELSE View("result",
              <<"Head-to-Head: ">> \o OrElse(p.fighterName, Fighter)
                  \o <<" vs. ">> \o OrElse(p.opponentName, Opponent),
              <<>>,
              Get(Get(p.analysisResult, "headToHead"), "prediction"),
              Get(Get(p.analysisResult, "headToHead"), "confidence"))

\* the message of the error analyzeFights throws for an unparsable reply
FormatMessage ==
    "The analysis result from the AI was not in the expected format. Please try again."

\* The props a parent may pass: analysisResult is whatever analyzeFights
\* returned for some reply, or null.
PropsSet ==
    [isLoading : BOOLEAN,
     analysisResult : {Null, JSONparse(ConformantText).value,
                       JSONparse(MissingConfidenceText).value,
                       JSONparse(MissingGamePlanText).value},
     error : {Null, Str(<<>>), Str(<<FormatMessage>>)},
     fighterName : {<<>>, Jones},
     opponentName : {<<>>, Smith}]

NoProps ==
    [isLoading |-> FALSE, analysisResult |-> Null, error |-> Null,
     fighterName |-> <<>>, opponentName |-> <<>>]
RenderIdle ==
    /\ props = NoProps
    /\ view = Unrendered

----------------------------------------------------------------------------
(* analyzeFights *)

\* Faulty variant of Await: the rejection is swallowed and the caller goes on.
AwaitSwallowing(p) == [threw |-> FALSE, reason |-> NoError]

\* `await p`: the awaited value, or the rejection thrown into the caller.
Await(p) == [threw |-> p.state = "rejected", reason |-> p.reason]

\* Faulty variant of ProviderRejected: the call sits inside the try block, so its
\* rejection is replaced by the format error.
ProviderRejectedWrapped(error) == Rejected(JsError("Error", FormatMessage))

\* A rejection of generateContent is not caught: it rejects analyzeFights.
ProviderRejected(error) == Rejected(error)

\* Faulty variant of ParseFailed: the catch block logs and rethrows the exception.
ParseFailedRethrows(jsonString, e) ==
    [result |-> Rejected(e),
     logged |-> << [message |-> "Failed to parse JSON response from Gemini:",
                    jsonString |-> jsonString, e |-> e] >>]

\* The catch block: logs the text and the exception, throws the fixed error.
ParseFailed(jsonString, e) ==
    [result |-> Rejected(JsError("Error", FormatMessage)),
     logged |-> << [message |-> "Failed to parse JSON response from Gemini:",
                    jsonString |-> jsonString, e |-> e] >>]

\* The try block: the parsed value is returned as it is.
ParseSucceeded(parsedResult) == [result |-> Fulfilled(parsedResult), logged |-> <<>>]

\* What analyzeFights does once generateContent has settled.
AfterGenerateContent(resp) ==
    IF resp.kind = "error" THEN [result |-> ProviderRejected(resp.error), logged |-> <<>>]
    ELSE IF resp.kind = "notext"
    THEN [result |-> Rejected(JsError("TypeError",
                        "Cannot read properties of undefined (reading 'trim')")),
          logged |-> <<>>]
    ELSE LET jsonString == trim(resp.text)
             parsed     == JSONparse(jsonString)
         IN  IF parsed.threw THEN ParseFailed(jsonString, parsed.e)
             ELSE ParseSucceeded(parsed.value)

\* Faulty variant of Issue: the call is wrapped in a retry that sends it again.
IssueWithRetry(net, i, request) ==
    Append(Append(net, [call |-> i, request |-> request]),
           [call |-> i, request |-> request])

\* The network after one more generateContent call by invocation i.
Issue(net, i, request) == Append(net, [call |-> i, request |-> request])

Arguments(fighterName, opponentName, weightClass, fighterVideo, opponentVideo) ==
    [fighterName |-> fighterName, opponentName |-> opponentName,
     weightClass |-> weightClass,
     fighterVideo |-> fighterVideo, opponentVideo |-> opponentVideo]

File(type, bytes) == [type |-> type, bytes |-> bytes]

\* The videos handed to analyzeFights in Spec and SpecCall.
ClipA == File(VideoMp4, <<77, 0, 255>>)
ClipB == File(VideoWebmCodecs, <<255>>)
ClipEmpty == File(VideoMp4, <<>>)
ClipUntyped == File(<<>>, <<0, 77>>)

Names == {<<>>, Jones, Smith}
\* the client takes the label as free text
WeightClasses == {Flyweight, Heavyweight, <<>>}

\* SpecCall: one invocation, any of these arguments
AllArguments ==
    [fighterName : Names, opponentName : Names, weightClass : WeightClasses,
     fighterVideo : {ClipA, ClipEmpty}, opponentVideo : {ClipB, ClipUntyped}]

\* Spec: the arguments of the concurrent invocations
ConcurrentArguments ==
    { Arguments(Jones, Smith, Heavyweight, ClipA, ClipB),
      Arguments(Smith, <<>>, Flyweight, ClipEmpty, ClipUntyped),
      Arguments(<<>>, Jones, Flyweight, ClipB, ClipA) }

Calls == {1, 2}

vars == <<encInput, encOutput, args, pc, fighterVideoPart, opponentVideoPart,
          reads, response, outcome, network, console, props, view>>
callVars == <<args, pc, fighterVideoPart, opponentVideoPart, reads, response,
              outcome, network, console>>

NoFile == File(<<>>, <<>>)
EncoderIdle ==
    /\ encInput = [file |-> NoFile, env |-> [kind |-> "none", engine |-> "", event |-> NoError]]
    /\ encOutput = PendingPart

\* Every invocation has run up to its first await: the reader of the
\* fighter's video is started and nothing else has happened.
Started(arguments) ==
    /\ args = arguments
    /\ pc = [i \in DOMAIN arguments |-> "fighterVideo"]
    /\ fighterVideoPart = [i \in DOMAIN arguments |-> NoPart]
    /\ opponentVideoPart = [i \in DOMAIN arguments |-> NoPart]
    /\ reads = [i \in DOMAIN arguments |-> <<>>]
    /\ response = [i \in DOMAIN arguments |-> NoResponse]
    /\ outcome = [i \in DOMAIN arguments |-> Pending]
    /\ network = <<>>
    /\ console = <<>>

Init ==
    /\ EncoderIdle
    /\ RenderIdle
    /\ \E arguments \in [Calls -> ConcurrentArguments] : Started(arguments)

InitCall ==
    /\ EncoderIdle
    /\ RenderIdle
    /\ \E arguments \in [{1} -> AllArguments] : Started(arguments)

\* The fighter's video has been read: `await fileToGenerativePart(fighterVideo)`
\* throws, or yields the part and the opponent's video is read next.
FighterVideoEncoded(i, env) ==
    /\ pc[i] = "fighterVideo"
    /\ reads' = [reads EXCEPT ![i] = Append(@, env)]
    /\ LET awaited == Await(fileToGenerativePart(args[i].fighterVideo, env))
           part    == fileToGenerativePart(args[i].fighterVideo, env).part
       IN  IF awaited.threw
           THEN /\ outcome' = [outcome EXCEPT ![i] = Rejected(awaited.reason)]
                /\ pc' = [pc EXCEPT ![i] = "done"]
                /\ UNCHANGED fighterVideoPart
           ELSE /\ fighterVideoPart' = [fighterVideoPart EXCEPT ![i] = part]
                /\ pc' = [pc EXCEPT ![i] = "opponentVideo"]
                /\ UNCHANGED outcome
    /\ UNCHANGED <<encInput, encOutput, props, view, args, opponentVideoPart, response, network, console>>

\* The opponent's video has been read: the await throws, or the prompt and
\* the schema are built and generateContent is called.
OpponentVideoEncoded(i, env) ==
    /\ pc[i] = "opponentVideo"
    /\ reads' = [reads EXCEPT ![i] = Append(@, env)]
    /\ LET awaited == Await(fileToGenerativePart(args[i].opponentVideo, env))
           part    == fileToGenerativePart(args[i].opponentVideo, env).part
       IN  IF awaited.threw
           THEN /\ outcome' = [outcome EXCEPT ![i] = Rejected(awaited.reason)]
                /\ pc' = [pc EXCEPT ![i] = "done"]
                /\ UNCHANGED <<opponentVideoPart, network>>
           ELSE /\ opponentVideoPart' = [opponentVideoPart EXCEPT ![i] = part]
                /\ network' = Issue(network, i,
                                GenerateContentRequest(args[i], fighterVideoPart[i], part))
                /\ pc' = [pc EXCEPT ![i] = "generateContent"]
                /\ UNCHANGED outcome
    /\ UNCHANGED <<encInput, encOutput, props, view, args, fighterVideoPart, response, console>>

\* generateContent has settled: the rest of analyzeFights runs.
ProviderAnswered(i, resp) ==
    /\ pc[i] = "generateContent"
    /\ response' = [response EXCEPT ![i] = resp]
    /\ LET after == AfterGenerateContent(resp)
       IN  /\ outcome' = [outcome EXCEPT ![i] = after.result]
           /\ console' = console \o after.logged
    /\ pc' = [pc EXCEPT ![i] = "done"]
    /\ UNCHANGED <<encInput, encOutput, props, view, args, fighterVideoPart, opponentVideoPart,
                   reads, network>>

Next ==
    \/ \E i \in DOMAIN args, env \in ReadEnvs : FighterVideoEncoded(i, env)
    \/ \E i \in DOMAIN args, env \in ReadEnvs : OpponentVideoEncoded(i, env)
    \/ \E i \in DOMAIN args, resp \in ProviderResponses : ProviderAnswered(i, resp)

Spec == Init /\ [][Next]_vars
SpecCall == InitCall /\ [][Next]_vars

----------------------------------------------------------------------------
(* SpecEncoder: the Encoder applied to one file *)

NoCalls == Started(<<>>)

InitEncoder ==
    /\ encInput \in [file : Files, env : ReadEnvs]
    /\ encOutput = PendingPart
    /\ NoCalls
    /\ RenderIdle

EncodeFile ==
    /\ encOutput.state = "pending"
    /\ encOutput' = fileToGenerativePart(encInput.file, encInput.env)
    /\ UNCHANGED <<encInput, callVars, props, view>>

NextEncoder == EncodeFile

SpecEncoder == InitEncoder /\ [][NextEncoder]_vars

----------------------------------------------------------------------------
(* SpecRender: ResultsSection mounted with some props, then given others *)

InitRender ==
    /\ EncoderIdle
    /\ NoCalls
    /\ props \in PropsSet
    /\ view = Unrendered

\* the first render
Mount ==
    /\ view.kind = "unrendered"
    /\ view' = renderContent(props)
    /\ UNCHANGED <<props, encInput, encOutput, callVars>>

\* the parent passes new props and the component renders again
Rerender(p) ==
    /\ view.kind # "unrendered"
    /\ props' = p
    /\ view' = renderContent(p)
    /\ UNCHANGED <<encInput, encOutput, callVars>>

NextRender ==
    \/ Mount
    \/ \E p \in PropsSet : Rerender(p)

SpecRender == InitRender /\ [][NextRender]_vars

----------------------------------------------------------------------------
(* What the properties below are stated with *)

FormatError == JsError("Error", FormatMessage)

\* the positions in the network of the requests invocation i issued
Requests(i) == {k \in 1..Len(network) : network[k].call = i}

BothEncoded(i) ==
    /\ Len(reads[i]) = 2
    /\ reads[i][1].kind = "load"
    /\ reads[i][2].kind = "load"

EncodingFailed(i) == reads[i] # <<>> /\ reads[i][Len(reads[i])].kind = "error"

\* v has the four substructures, each with every field the schema declares
ConformsToSchema(v) ==
    /\ v.t = "object"
    /\ \A sub \in DOMAIN SchemaProperties :
        /\ Get(v, sub).t = "object"
        /\ \A f \in DOMAIN SchemaProperties[sub] : Get(Get(v, sub), f).t # "undefined"

IsJson(text) == ~JSONparse(text).threw

\* atob: the bytes a base64 text stands for, or a failure
B64Value(c) == CHOOSE n \in 0..63 : B64[n + 1] = c
B64Chars == {B64[n] : n \in 1..64}

RECURSIVE DecodeGroups(_)
DecodeGroups(s) ==
    IF Len(s) = 0 THEN <<>>
    ELSE IF Len(s) = 2 THEN
        << (B64Value(s[1]) * 4 + B64Value(s[2]) \div 16) % 256 >>
    ELSE IF Len(s) = 3 THEN
        LET n == (B64Value(s[1]) * 4096 + B64Value(s[2]) * 64 + B64Value(s[3])) \div 4
        IN  << (n \div 256) % 256, n % 256 >>
    ELSE
        LET n == B64Value(s[1]) * 262144 + B64Value(s[2]) * 4096
                 + B64Value(s[3]) * 64 + B64Value(s[4])
        IN  << n \div 65536, (n \div 256) % 256, n % 256 >>
            \o DecodeGroups(SubSeq(s, 5, Len(s)))

atob(s) ==
    LET n == Len(s)
        body == IF n > 0 /\ n % 4 = 0 /\ s[n] = "="
                THEN IF s[n - 1] = "=" THEN SubSeq(s, 1, n - 2) ELSE SubSeq(s, 1, n - 1)
                ELSE s
    IN  IF Len(body) % 4 = 1 \/ \E i \in 1..Len(body) : body[i] \notin B64Chars
        THEN [ok |-> FALSE, bytes |-> <<>>]
        ELSE [ok |-> TRUE, bytes |-> DecodeGroups(body)]

----------------------------------------------------------------------------
(* Properties of analyzeFights, under Spec *)

\* C1: a reply that is valid JSON but lacks a substructure or a field makes
\* analyzeFights fail with the format error, and every value analyzeFights
\* returns has all four substructures with all their fields.
C1_NoPartialResult ==
    \A i \in DOMAIN args :
        /\ outcome[i].state = "fulfilled" => ConformsToSchema(outcome[i].value)
        /\ ( /\ response[i].kind = "text"
             /\ IsJson(response[i].text)
             /\ ~ConformsToSchema(JSONparse(response[i].text).value) )
           => outcome[i] = Rejected(FormatError)

\* C2: a reply whose text is not valid JSON makes analyzeFights fail with the
\* one fixed format error, whatever the text and whatever the parser threw;
\* the text and the parser's exception go to the console and nowhere else.
C2_GenericFormatError ==
    \A i \in DOMAIN args :
        (response[i].kind = "text" /\ ~IsJson(response[i].text))
        => /\ outcome[i].state = "rejected"
           /\ outcome[i].reason = FormatError
           /\ outcome[i].reason # JSONparse(response[i].text).e
           /\ outcome[i].value = Undefined
           /\ \E k \in 1..Len(console) :
                /\ console[k].jsonString = trim(response[i].text)
                /\ console[k].e = JSONparse(response[i].text).e

\* C2's case: two invocations got different unparsable texts, for which the
\* parser threw different exceptions.
C2_Witness ==
    /\ DOMAIN args = Calls
    /\ \A i \in Calls : response[i].kind = "text" /\ ~IsJson(response[i].text)
    /\ response[1].text = TruncatedText
    /\ response[2].text = ProseText
    /\ JSONparse(response[1].text).e # JSONparse(response[2].text).e

\* C3: when generateContent fails with an error, analyzeFights fails with
\* that very error and returns nothing.
C3_ProviderErrorUnchanged ==
    \A i \in DOMAIN args :
        response[i].kind = "error"
        => /\ outcome[i] = Rejected(response[i].error)
           /\ outcome[i].reason # FormatError

C3_Witness ==
    \E i \in DOMAIN args :
        /\ response[i].kind = "error"
        /\ response[i].error = JsError("TypeError", "Failed to fetch")
        /\ pc[i] = "done"

\* C5: a request is issued only when both videos have been encoded, and it
\* carries the two encoded parts; when an encoding fails, analyzeFights
\* fails with that failure unchanged and issues no request.
C5_RequestAfterBothEncodings ==
    \A i \in DOMAIN args :
        /\ \A k \in Requests(i) :
            /\ BothEncoded(i)
            /\ network[k].request.parts[3].inlineData = fighterVideoPart[i]
            /\ network[k].request.parts[5].inlineData = opponentVideoPart[i]
        /\ EncodingFailed(i)
           => /\ outcome[i] = Rejected(reads[i][Len(reads[i])].event)
              /\ Requests(i) = {}
              /\ pc[i] = "done"

\* C5's case: the second encoding of one invocation has failed while the
\* other invocation has issued its request.
C5_Witness ==
    \E i \in DOMAIN args, j \in DOMAIN args :
        /\ Len(reads[i]) = 2
        /\ EncodingFailed(i)
        /\ Requests(j) # {}

AtMostOneRequest ==
    \A i \in DOMAIN args :
        /\ Cardinality(Requests(i)) <= 1
        /\ Cardinality(Requests(i)) = 1 <=> BothEncoded(i)
        /\ outcome[i].state # "pending" <=> pc[i] = "done"

NothingAfterTheEnd ==
    \A i \in DOMAIN args :
        outcome[i].state # "pending"
        => /\ outcome'[i] = outcome[i]
           /\ {k \in 1..Len(network') : network'[k].call = i} = Requests(i)
           /\ pc'[i] = "done"

\* C7: an invocation issues at most one request, exactly one when both
\* encodings succeeded, and once it has ended, with a result or with any
\* failure, it does nothing more: no retry, no fallback.
C7_SingleAttempt == []AtMostOneRequest /\ [][NothingAfterTheEnd]_vars

\* C7's case: invocations that ended on every kind of path while the other
\* one was still to issue its request.
C7_Witness ==
    /\ DOMAIN args = Calls
    /\ response[1].kind = "error"
    /\ outcome[1].state = "rejected"
    /\ Cardinality(Requests(1)) = 1
    /\ response[2].kind = "text"
    /\ outcome[2].reason = FormatError
    /\ Cardinality(Requests(2)) = 1

\* what invocation i should end with, from its own files, reads and reply
OwnOutcome(i) ==
    IF EncodingFailed(i) THEN Rejected(reads[i][Len(reads[i])].event)
    ELSE AfterGenerateContent(response[i]).result

OwnRequest(i, request) ==
    /\ request.parts[1].text
         = prompt(args[i].fighterName, args[i].opponentName, args[i].weightClass)
    /\ request.parts[2].text = FighterVideoLabel(args[i].fighterName)
    /\ request.parts[3].inlineData
         = fileToGenerativePart(args[i].fighterVideo, reads[i][1]).part
    /\ request.parts[4].text = OpponentVideoLabel(args[i].opponentName)
    /\ request.parts[5].inlineData
         = fileToGenerativePart(args[i].opponentVideo, reads[i][2]).part
    /\ request.config.responseSchema
         = responseSchema(args[i].fighterName, args[i].opponentName)

Independent ==
    \A i \in DOMAIN args :
        /\ \A k \in Requests(i) : OwnRequest(i, network[k].request)
        /\ pc[i] = "done" => outcome[i] = OwnOutcome(i)

Locals(i) ==
    <<pc[i], fighterVideoPart[i], opponentVideoPart[i], reads[i], response[i], outcome[i]>>

OneInvocationPerStep ==
    \A i \in DOMAIN args, j \in DOMAIN args :
        (i # j /\ Locals(i)' # Locals(i)) => Locals(j)' = Locals(j)

\* C8: however the steps of two invocations interleave, each request is built
\* from the arguments and the encoded files of the invocation that issued
\* it, each invocation ends as its own reads and its own reply determine,
\* and a step of one invocation changes nothing of the other.
C8_InvocationsIndependent == []Independent /\ [][OneInvocationPerStep]_vars

\* C8's case: two invocations with different arguments, the second one's
\* request issued first, ended differently.
C8_Witness ==
    /\ DOMAIN args = Calls
    /\ args[1].fighterName # args[2].fighterName
    /\ Len(network) = 2
    /\ network[1].call = 2
    /\ network[2].call = 1
    /\ pc[1] = "done" /\ pc[2] = "done"
    /\ outcome[1].state = "fulfilled"
    /\ outcome[2].state = "rejected"

----------------------------------------------------------------------------
(* The prompt, under SpecCall *)

IsInterpolated(chunk) == chunk \notin PromptChunks

\* C9: the prompt of every request contains the weight-class label and each
\* non-empty name as given; between its fixed stretches it holds the
\* characters of the arguments and nothing else, so an empty name is sent as
\* the empty string.
C9_PromptCarriesArguments ==
    \A k \in 1..Len(network) :
        LET a    == args[network[k].call]
            text == network[k].request.parts[1].text
        IN  /\ Contains(text, a.weightClass)
            /\ a.fighterName # <<>> => Contains(text, a.fighterName)
            /\ a.opponentName # <<>> => Contains(text, a.opponentName)
            /\ Contains(text, <<PromptIntro>> \o a.fighterName \o <<PromptFighter2>>)
            /\ Contains(text, <<PromptFighter2>> \o a.opponentName \o <<PromptWeightClass>>)
            /\ Contains(text, <<PromptWeightClass>> \o a.weightClass \o <<PromptCover>>)
            /\ Len(SelectSeq(text, IsInterpolated))
                 = 3 * Len(a.fighterName) + 3 * Len(a.opponentName) + Len(a.weightClass)

\* C9's case: a request for an empty fighter name, a non-empty opponent name
\* and a weight class.
C9_Witness ==
    \E k \in 1..Len(network) :
        LET a == args[network[k].call]
        IN  /\ a.fighterName = <<>>
            /\ a.opponentName = Smith
            /\ a.weightClass = Heavyweight

----------------------------------------------------------------------------
(* Properties of the Encoder, under SpecEncoder *)

\* the read gave nothing that holds base64 text after a comma
Uninterpretable(file, env) ==
    LET result == ReaderResult(file, env)
    IN  \/ env.kind = "error"
        \/ result.t # "string"
        \/ Len(Split(result.v, ",")) < 2

\* C4: the Encoder fails whenever the read errors or its result is not a
\* string with a base64 part after a comma, so every payload it produces has
\* a base64 string as its data.
C4_EncoderFailsOnBadRead ==
    encOutput.state # "pending"
    => /\ Uninterpretable(encInput.file, encInput.env) => encOutput.state = "rejected"
       /\ encOutput.state = "fulfilled" => encOutput.part.data.t = "string"

\* C6: for every file that can be read, the empty file included, the Encoder
\* produces a payload with the file's declared type whose data decodes to the
\* file's bytes.
C6_RoundTrip ==
    (encOutput.state # "pending" /\ encInput.env.kind = "load")
    => /\ encOutput.state = "fulfilled"
       /\ encOutput.part.mimeType = encInput.file.type
       /\ encOutput.part.data.t = "string"
       /\ atob(encOutput.part.data.v) = [ok |-> TRUE, bytes |-> encInput.file.bytes]

----------------------------------------------------------------------------
(* Properties of ResultsSection, under SpecRender *)

\* C10: the view is chosen by precedence loading > error > empty > result:
\* the result cards are shown only when isLoading is false, error is null or
\* empty and analysisResult is not null, and for an analysisResult of the
\* declared shape they are shown then.
C10_ViewPrecedence ==
    view.kind # "unrendered"
    => /\ props.isLoading => view.kind = "loading"
       /\ (~props.isLoading /\ Truthy(props.error))
          => (view.kind = "error" /\ view.message = props.error.v)
       /\ (~props.isLoading /\ ~Truthy(props.error) /\ props.analysisResult = Null)
          => view.kind = "empty"
       /\ ( /\ ~props.isLoading
            /\ ~Truthy(props.error)
            /\ ConformsToSchema(props.analysisResult) )
          => view.kind = "result"
       /\ view.kind = "result"
          => /\ ~props.isLoading
             /\ ~Truthy(props.error)
             /\ props.analysisResult # Null

\* C10's case: a result is still in the props while an error is set.
C10_Witness ==
    /\ view.kind = "error"
    /\ ConformsToSchema(props.analysisResult)
    /\ ~props.isLoading

=============================================================================
